---------------------------- MODULE Spec2Model ----------------------------
(***************************************************************************)
(* Model of src/news_digest.py: the feed collection loop and selection of  *)
(* fetch_articles, the model/attempt loop of try_gemini_summarize, and the *)
(* digest selection and delivery of main.                                  *)
(*                                                                         *)
(* Text is a sequence of one-character strings, so that str.strip() is a   *)
(* real conversion.  Timestamps are positive integers.  A feed URL is its  *)
(* index in RSS_FEEDS, a model name its index in GEMINI_MODELS.            *)
(* The article fields "summary" and "published" and the prompt string are  *)
(* left out: no modelled branch reads them (the backend's answer is an     *)
(* input of the model, whatever the prompt is).                            *)
(***************************************************************************)
EXTENDS Integers, Sequences, FiniteSets, TLC

\* ---- Program constants ----------------------------------------------------
NumFeeds == 16
MAX_PER_FEED == 5
MAX_ARTICLES == 40
NumModels == 4
AttemptBudget == 3
ShortenWidth == 220

\* ---- Bounds of the inputs ---------------------------------------------------
\* MaxTs: largest published timestamp; MaxEntries: most entries a feed returns
\* (more than MAX_PER_FEED); MaxTextLen: longest response text; MaxParts: most
\* parts of a candidate.
MaxTs == 2
MaxEntries == 6
MaxTextLen == 1
MaxParts == 1

RSS_FEEDS == 1..NumFeeds
GEMINI_MODELS == 1..NumModels

\* ---- Text ---------------------------------------------------------------------
Take(s, n) == SubSeq(s, 1, IF n < Len(s) THEN n ELSE Len(s))

RECURSIVE LStrip(_)
LStrip(s) == IF s # <<>> /\ Head(s) = " " THEN LStrip(Tail(s)) ELSE s

RECURSIVE RStrip(_)
RStrip(s) ==
    IF s # <<>> /\ s[Len(s)] = " " THEN RStrip(SubSeq(s, 1, Len(s) - 1)) ELSE s

Strip(s) == RStrip(LStrip(s))

RECURSIVE SeqsUpTo(_, _)
SeqsUpTo(S, n) ==
    IF n = 0 THEN {<<>>}
    ELSE LET shorter == SeqsUpTo(S, n - 1)
         IN  shorter \cup {Append(s, c) : s \in shorter, c \in S}

Texts == SeqsUpTo({" ", "a"}, MaxTextLen)

RECURSIVE Join(_)
Join(parts) == IF parts = <<>> THEN <<>> ELSE Head(parts) \o Join(Tail(parts))

\* ---- Feed entries -------------------------------------------------------------
\* A parsed time is <<>> (absent or None), <<t>> with t >= 1 (a struct_time),
\* or <<0>>: a struct_time that datetime() rejects with ValueError.
RawEntry(title, link, pub, upd) ==
    [title |-> title, link |-> link, published_parsed |-> pub, updated_parsed |-> upd]

\* The entries feeds are cut from: MaxTs + 4 well-formed ones (ascending times,
\* ties, blank and padded titles, missing times), then a malformed one.
StreamLen == MaxTs + 5
Stream(k) ==
    IF k <= MaxTs THEN RawEntry(<<"a">>, <<"l">>, <<k>>, <<>>)
    ELSE IF k = MaxTs + 1 THEN RawEntry(<<" ">>, <<>>, <<>>, <<MaxTs>>)
    ELSE IF k = MaxTs + 2 THEN RawEntry(<<" ", "a">>, <<"l", " ">>, <<>>, <<>>)
    ELSE IF k = MaxTs + 3 THEN RawEntry(<<"a">>, <<"l">>, <<1>>, <<MaxTs>>)
    ELSE IF k = MaxTs + 4 THEN RawEntry(<<"a", " ">>, <<>>, <<MaxTs>>, <<1>>)
    ELSE RawEntry(<<"a">>, <<"l">>, <<0>>, <<>>)

\* What feedparser.parse(url) gives: it raises, or it returns n entries.
RaisingFeed == [raises |-> TRUE, entries |-> <<>>]
Feed(n, o) ==
    [raises |-> FALSE,
     entries |-> [j \in 1..n |-> Stream(((o + j - 2) % StreamLen) + 1)]]

FeedShapes == {RaisingFeed} \cup {Feed(n, o) : n \in 0..MaxEntries, o \in 1..StreamLen}
MainShapes == {Feed(0, 1), Feed(MaxTs, 1)}
Batch(A, B) == [i \in RSS_FEEDS |-> IF i % 2 = 1 THEN A ELSE B]
NowVals == {MaxTs, MaxTs + 1}

KeyVals == {<<>>, <<" ">>, <<"k">>}

VARIABLES
    feeds,            \* input: what each feed URL returns
    now,              \* input: the clock, in timestamp units
    sdk_ok,           \* input: whether the import and genai.configure succeed
    GOOGLE_API_KEY,   \* module global
    GEMINI_AVAILABLE, \* module global
    pc,               \* position of the run
    html,             \* main: args.html
    fi,               \* fetch_articles: index of the next URL of RSS_FEEDS
    all_items,        \* fetch_articles: all_items
    logv,             \* lines written by log(), as events
    items,            \* main: items
    mi,               \* try_gemini_summarize: index of model_name in GEMINI_MODELS
    attempt,          \* try_gemini_summarize: attempt
    last_err,         \* try_gemini_summarize: last_err
    text,             \* try_gemini_summarize: the text that was returned, unstripped
    trace,            \* backend calls and time.sleep calls made, in order
    digest_text,      \* main: digest_text
    stdout,           \* what main printed, or NotPrinted
    exit_code         \* what main returned, or NotExited

fetchVars == <<feeds, now, fi, all_items>>
sumVars == <<mi, attempt, last_err, text, trace>>
envVars == <<sdk_ok, GOOGLE_API_KEY, GEMINI_AVAILABLE, html>>
vars == <<feeds, now, sdk_ok, GOOGLE_API_KEY, GEMINI_AVAILABLE, pc, html, fi, all_items,
          logv, items, mi, attempt, last_err, text, trace, digest_text, stdout,
          exit_code>>

\* ---- fetch_articles ---------------------------------------------------------
NoTitle == <<"(", "n", "o", " ", "t", "i", "t", "l", "e", ")">>

EntryRaises(e) ==
    IF e.published_parsed # <<>> THEN e.published_parsed[1] = 0
    ELSE e.updated_parsed # <<>> /\ e.updated_parsed[1] = 0

EntryTs(e) ==
    IF e.published_parsed # <<>> THEN e.published_parsed[1]
    ELSE IF e.updated_parsed # <<>> THEN e.updated_parsed[1]
    ELSE now

Article(e, url) ==
    [title  |-> IF Strip(e.title) = <<>> THEN NoTitle ELSE Strip(e.title),
     link   |-> Strip(e.link),
     ts     |-> EntryTs(e),
     source |-> url]

SliceAll(entries) == entries
SlicePerFeed(entries) == Take(entries, MAX_PER_FEED)

\* Number of entries turned into articles before one raises (all, if none does).
RECURSIVE GoodPrefixLen(_)
GoodPrefixLen(entries) ==
    IF entries = <<>> \/ EntryRaises(Head(entries)) THEN 0
    ELSE 1 + GoodPrefixLen(Tail(entries))

Max(S) == CHOOSE m \in S : \A x \in S : x <= m

RECURSIVE SortByKeysAsc(_, _)
SortByKeysAsc(keys, s) ==
    IF keys = {} THEN <<>>
    ELSE LET m == Max(keys)
         IN  SortByKeysAsc(keys \ {m}, s) \o SelectSeq(s, LAMBDA x : x.ts = m)

Reverse(s) == [i \in 1..Len(s) |-> s[Len(s) + 1 - i]]

RECURSIVE SortByKeysDesc(_, _)
SortByKeysDesc(keys, s) ==
    IF keys = {} THEN <<>>
    ELSE LET m == Max(keys)
         IN  SelectSeq(s, LAMBDA x : x.ts = m) \o SortByKeysDesc(keys \ {m}, s)

SortReversed(s) == Reverse(SortByKeysAsc({s[i].ts : i \in 1..Len(s)}, s))
\* list.sort(key=ts, reverse=True): stable, equal keys keep their order.
SortDesc(s) == SortByKeysDesc({s[i].ts : i \in 1..Len(s)}, s)

FoundLine(url, n) == [ev |-> "found", url |-> url, n |-> n]
ErrorLine(url) == [ev |-> "error", url |-> url, n |-> 0]
TotalLine(n) == [ev |-> "total", url |-> 0, n |-> n]

\* One iteration of `for url in RSS_FEEDS`.
FetchFeed ==
    /\ pc = "fetch"
    /\ fi <= NumFeeds
    /\ LET d == feeds[fi]
           entries == SlicePerFeed(d.entries)
           good == GoodPrefixLen(entries)
       IN  IF d.raises
           THEN /\ logv' = Append(logv, ErrorLine(fi))
                /\ UNCHANGED all_items
           ELSE /\ all_items' =
                      all_items \o [j \in 1..good |-> Article(entries[j], fi)]
                /\ logv' = IF good < Len(entries)
                           THEN logv \o <<FoundLine(fi, Len(entries)), ErrorLine(fi)>>
                           ELSE Append(logv, FoundLine(fi, Len(entries)))
    /\ fi' = fi + 1
    /\ UNCHANGED <<feeds, now, pc, items, envVars, sumVars, digest_text, stdout,
                   exit_code>>

\* The sort and truncation after the loop, and main's `items = fetch_articles()`.
FetchReturn ==
    /\ pc = "fetch"
    /\ fi = NumFeeds + 1
    /\ all_items' = SortDesc(all_items)
    /\ items' = Take(all_items', MAX_ARTICLES)
    /\ logv' = Append(logv, TotalLine(Len(items')))
    /\ pc' = "fetched"
    /\ UNCHANGED <<feeds, now, fi, envVars, sumVars, digest_text, stdout, exit_code>>


\* ---- Module globals (lines 40-51) -------------------------------------------
GeminiAvailable(key, ok) == key # <<>> /\ ok

\* ---- try_gemini_summarize ---------------------------------------------------
PartTexts == {t \in Texts : Len(t) <= 1}
\* resp.candidates: <<>> (None or no candidate) or <<parts of candidates[0]>>.
CandVals == {<<>>} \cup {<<parts>> : parts \in SeqsUpTo(PartTexts, MaxParts)}
Responses ==
    {r \in [has_text : BOOLEAN, text : Texts, candidates : CandVals] :
        r.has_text \/ r.text = <<>>}

\* Lines 152-159: the text that is returned (before strip), or none.
TextOf(r) ==
    IF r.has_text /\ r.text # <<>> THEN [ok |-> TRUE, raw |-> r.text]
    ELSE IF r.candidates # <<>> /\ Strip(Join(r.candidates[1])) # <<>>
         THEN [ok |-> TRUE, raw |-> Join(r.candidates[1])]
         ELSE [ok |-> FALSE, raw |-> <<>>]

ReturnedTexts == {TextOf(r).raw : r \in {q \in Responses : TextOf(q).ok}}

BackoffFlat(a) == 2
Backoff(a) == 2 + a * 2

CallEvent(m, a, out) == [ev |-> "call", model |-> m, attempt |-> a, out |-> out, secs |-> 0]
SleepEvent(m, a, s) == [ev |-> "sleep", model |-> m, attempt |-> a, out |-> "", secs |-> s]
FallbackLine == [ev |-> "falling_back", url |-> 0, n |-> 0]
NoKeyLine == [ev |-> "no_key", url |-> 0, n |-> 0]
SdkErrorLine == [ev |-> "sdk_error", url |-> 0, n |-> 0]

NoDigest == [none |-> TRUE, text |-> <<>>]
Digest(t) == [none |-> FALSE, text |-> t]
NotPrinted == [kind |-> "nothing", body |-> <<>>]
NotExited == <<>>

\* `continue` of the model loop; after the last model, line 169 raises and
\* main's handler (lines 227-228) logs the fallback.
NextModel ==
    IF mi < NumModels
    THEN /\ mi' = mi + 1 /\ attempt' = 0 /\ UNCHANGED <<pc, logv>>
    ELSE /\ pc' = "digest" /\ logv' = Append(logv, FallbackLine)
         /\ UNCHANGED <<mi, attempt>>

\* Next iteration of `for attempt in range(3)`, or the end of that loop.
NextAttemptInclusive ==
    IF attempt + 1 <= AttemptBudget
    THEN /\ attempt' = attempt + 1 /\ UNCHANGED <<mi, pc, logv>>
    ELSE NextModel
NextAttempt ==
    IF attempt + 1 < AttemptBudget
    THEN /\ attempt' = attempt + 1 /\ UNCHANGED <<mi, pc, logv>>
    ELSE NextModel

\* Lines 151-153, 154-158: the call returns a response that carries text.
CallReturnsText ==
    /\ pc = "summarize"
    /\ \E raw \in ReturnedTexts :
          /\ text' = raw
          /\ digest_text' = Digest(Strip(raw))
    /\ trace' = Append(trace, CallEvent(mi, attempt, "text"))
    /\ pc' = "digest"
    /\ UNCHANGED <<fetchVars, envVars, items, logv, mi, attempt, last_err, stdout,
                   exit_code>>

\* Line 159 raises RuntimeError; lines 166-168 catch it.
AfterEmpty == NextModel
CallReturnsEmpty ==
    /\ pc = "summarize"
    /\ \E r \in Responses : ~TextOf(r).ok
    /\ trace' = Append(trace, CallEvent(mi, attempt, "empty"))
    /\ last_err' = "RuntimeError"
    /\ AfterEmpty
    /\ UNCHANGED <<fetchVars, envVars, items, text, digest_text, stdout, exit_code>>

\* Lines 160-162.
CallRaisesQuota ==
    /\ pc = "summarize"
    /\ trace' = trace \o <<CallEvent(mi, attempt, "quota"),
                           SleepEvent(mi, attempt, Backoff(attempt))>>
    /\ last_err' = "ResourceExhausted"
    /\ NextAttempt
    /\ UNCHANGED <<fetchVars, envVars, items, text, digest_text, stdout, exit_code>>

\* Lines 163-165: break.
AfterApiErrorRetry == NextAttempt
AfterApiError == NextModel
CallRaisesApiError ==
    /\ pc = "summarize"
    /\ trace' = Append(trace, CallEvent(mi, attempt, "api_error"))
    /\ last_err' = "GoogleAPIError"
    /\ AfterApiError
    /\ UNCHANGED <<fetchVars, envVars, items, text, digest_text, stdout, exit_code>>

\* Lines 166-168: any other exception of the call (or of line 148, which does
\* no I/O and takes the same handler).
CallRaisesOther ==
    /\ pc = "summarize"
    /\ trace' = Append(trace, CallEvent(mi, attempt, "other"))
    /\ last_err' = "Exception"
    /\ NextModel
    /\ UNCHANGED <<fetchVars, envVars, items, text, digest_text, stdout, exit_code>>

\* ---- format_headlines_only, to_html -------------------------------------------
RECURSIVE Words(_, _)
Words(s, cur) ==
    IF s = <<>> THEN (IF cur = <<>> THEN <<>> ELSE <<cur>>)
    ELSE IF Head(s) = " "
         THEN (IF cur = <<>> THEN <<>> ELSE <<cur>>) \o Words(Tail(s), <<>>)
         ELSE Words(Tail(s), Append(cur, Head(s)))

RECURSIVE JoinWords(_)
JoinWords(w) ==
    IF w = <<>> THEN <<>>
    ELSE IF Len(w) = 1 THEN w[1]
    ELSE w[1] \o <<" ">> \o JoinWords(Tail(w))

Placeholder == <<"...">>

\* textwrap.shorten(line, width, placeholder): whitespace collapsed; if too long,
\* the longest prefix of whole words that fits with the placeholder.
Shorten(s) ==
    LET w == Words(s, <<>>)
        fits == {k \in 0..Len(w) :
                    Len(JoinWords(Take(w, k))) + Len(Placeholder) <= ShortenWidth}
        k == Max(fits)
    IN  IF Len(JoinWords(w)) <= ShortenWidth THEN JoinWords(w)
        ELSE IF k = 0 THEN Placeholder
        ELSE JoinWords(Take(w, k)) \o Placeholder

RECURSIVE JoinLines(_)
JoinLines(out) ==
    IF out = <<>> THEN <<>>
    ELSE IF Len(out) = 1 THEN out[1]
    ELSE out[1] \o <<"\n">> \o JoinLines(Tail(out))

ItemLine(it) == Shorten(<<"-", " ">> \o it.title \o <<" ", "(">> \o it.link \o <<")">>)

format_headlines_only(its) ==
    JoinLines(<<<<"Power & Utilities - Headlines Digest (LLM unavailable)">>,
                <<ToString(now)>>,
                <<>>>>
              \o [i \in 1..Len(its) |-> ItemLine(its[i])]
              \o <<<<>>,
                   <<"What matters:">>,
                   <<"Watch protection & control updates">>,
                   <<"Track interconnection/transmission constraints">>,
                   <<"Monitor regulatory moves">>>>)

to_html(body_text) == <<"<!doctype html>", ToString(now), "<pre>">> \o body_text \o <<"</pre>">>

\* ---- main ---------------------------------------------------------------------
\* Lines 209-211.
ParseArgs ==
    /\ pc = "start"
    /\ html' \in BOOLEAN
    /\ pc' = "fetch"
    /\ UNCHANGED <<fetchVars, sdk_ok, GOOGLE_API_KEY, GEMINI_AVAILABLE, sumVars, logv,
                   items, digest_text, stdout, exit_code>>

\* Lines 215-218.
NoArticles ==
    /\ pc = "fetched"
    /\ items = <<>>
    /\ logv' = Append(logv, [ev |-> "no_articles", url |-> 0, n |-> 0])
    /\ stdout' = [kind |-> "no_articles", body |-> <<"No articles found.">>]
    /\ exit_code' = <<0>>
    /\ pc' = "done"
    /\ UNCHANGED <<fetchVars, envVars, sumVars, items, digest_text>>

\* Lines 220-226 and 144-146: into the model loop.
StartSummarize ==
    /\ pc = "fetched"
    /\ items # <<>>
    /\ GEMINI_AVAILABLE
    /\ mi' = 1
    /\ attempt' = 0
    /\ last_err' = "None"
    /\ pc' = "summarize"
    /\ UNCHANGED <<fetchVars, envVars, items, logv, text, trace, digest_text, stdout,
                   exit_code>>

\* Lines 220-224 and 229-233.
SkipEnterLoop ==
    /\ mi' = 1 /\ attempt' = 0 /\ pc' = "summarize" /\ UNCHANGED logv
SkipSummarizeBody ==
    /\ pc' = "digest"
    /\ logv' = Append(logv, IF GOOGLE_API_KEY # <<>> THEN SdkErrorLine ELSE NoKeyLine)
    /\ UNCHANGED <<mi, attempt>>
SkipSummarize ==
    /\ pc = "fetched"
    /\ items # <<>>
    /\ ~GEMINI_AVAILABLE
    /\ SkipSummarizeBody
    /\ UNCHANGED <<fetchVars, envVars, items, last_err, text, trace, digest_text,
                   stdout, exit_code>>

\* Lines 235-236.
FinalDigestNoFallback(d, its) == d.text
FinalDigest(d, its) ==
    IF d.none \/ d.text = <<>> THEN format_headlines_only(its) ELSE d.text

\* Lines 235-247.
Deliver ==
    /\ pc = "digest"
    /\ digest_text' = Digest(FinalDigest(digest_text, items))
    /\ stdout' = IF html
                 THEN [kind |-> "html", body |-> to_html(digest_text'.text)]
                 ELSE [kind |-> "text", body |-> digest_text'.text]
    /\ exit_code' = <<0>>
    /\ pc' = "done"
    /\ UNCHANGED <<fetchVars, envVars, sumVars, items, logv>>

\* ---- Specifications -----------------------------------------------------------
InitRest ==
    /\ fi = 1
    /\ all_items = <<>>
    /\ logv = <<>>
    /\ items = <<>>
    /\ mi = 0
    /\ attempt = 0
    /\ last_err = "None"
    /\ text = <<>>
    /\ trace = <<>>
    /\ digest_text = NoDigest
    /\ stdout = NotPrinted
    /\ exit_code = NotExited

\* A whole run, from the import of the module on.  Odd feeds return the same
\* entries (none, or MaxTs of them), even feeds raise.
Init ==
    /\ \E A \in MainShapes : feeds = Batch(A, RaisingFeed)
    /\ now = MaxTs + 1
    /\ sdk_ok \in BOOLEAN
    /\ \E key \in KeyVals :
          /\ GOOGLE_API_KEY = Strip(key)
          /\ GEMINI_AVAILABLE = GeminiAvailable(Strip(key), sdk_ok)
    /\ html = FALSE
    /\ pc = "start"
    /\ InitRest

Next ==
    \/ ParseArgs
    \/ FetchFeed
    \/ FetchReturn
    \/ NoArticles
    \/ StartSummarize
    \/ SkipSummarize
    \/ CallReturnsText
    \/ CallReturnsEmpty
    \/ CallRaisesQuota
    \/ CallRaisesApiError
    \/ CallRaisesOther
    \/ Deliver

Spec == Init /\ [][Next]_vars

\* fetch_articles alone, over a wider set of feed batches: odd feeds return one
\* shape, even feeds another, each any of FeedShapes.
InitFetch ==
    /\ \E A \in FeedShapes, B \in FeedShapes : feeds = Batch(A, B)
    /\ now \in NowVals
    /\ sdk_ok = TRUE
    /\ GOOGLE_API_KEY = <<>>
    /\ GEMINI_AVAILABLE = GeminiAvailable(<<>>, TRUE)
    /\ html = FALSE
    /\ pc = "fetch"
    /\ InitRest

NextFetch == FetchFeed \/ FetchReturn

SpecFetch == InitFetch /\ [][NextFetch]_vars

\* ---- Properties: try_gemini_summarize ------------------------------------------
IsCall(i) == trace[i].ev = "call"
CallIdx == {i \in DOMAIN trace : IsCall(i)}
CallsTo(m) == Cardinality({i \in CallIdx : trace[i].model = m})
OutsOf(m) == {trace[i].out : i \in {j \in CallIdx : trace[j].model = m}}
\* try_gemini_summarize was entered and has been left.
LoopOver == pc \in {"digest", "done"} /\ mi >= 1
Returned == LoopOver /\ trace # <<>> /\ trace[Len(trace)].out = "text"
LeftModel(m) == LoopOver \/ (pc = "summarize" /\ mi > m)
\* r is t without its leading and trailing blanks.
IsStripOf(r, t) ==
    \E i \in 1..(Len(t) + 1), j \in 0..Len(t) :
        /\ r = SubSeq(t, i, j)
        /\ \A k \in 1..(i - 1) : t[k] = " "
        /\ \A k \in (j + 1)..Len(t) : t[k] = " "
        /\ i <= j => (t[i] # " " /\ t[j] # " ")

\* Models 1..K-1 raised quota-exhausted on every attempt, and the first call to
\* model K returned text.
QuotaThenText(K) ==
    /\ \A m \in 1..(K - 1) : OutsOf(m) \subseteq {"quota"}
    /\ \E i \in CallIdx : trace[i] = CallEvent(K, 0, "text")

InQueueOrder(K) ==
    /\ \A m \in 1..(K - 1) : CallsTo(m) >= 1
    /\ \A i \in CallIdx, j \in CallIdx :
          (trace[i].model < K /\ trace[j].model = K) => i < j
    /\ \A m \in (K + 1)..NumModels : CallsTo(m) = 0

\* C1: for every K, if models 1..K-1 raised quota-exhausted on every attempt and
\* the first call to model K returned text, then the result of
\* try_gemini_summarize is model K's text (surrounding whitespace aside, and
\* not empty), every model before K was called before K, and no model after K
\* is called.
C1_QueueOrderResult ==
    \A K \in GEMINI_MODELS :
        QuotaThenText(K) =>
            /\ InQueueOrder(K)
            /\ pc = "digest" =>
                  /\ ~digest_text.none
                  /\ digest_text.text # <<>>
                  /\ IsStripOf(digest_text.text, text)

\* C2: every quota-exhausted call (model m, attempt a) is followed by a sleep of
\* 2 + 2a seconds, strictly longer for a later attempt, and then by the call
\* (m, a+1) while a+1 < 3; a model that raised quota-exhausted on every attempt
\* and was left has been called exactly 3 times, the next call is to model m+1,
\* and no call to m follows a call to a later model.
C2_QuotaBackoffRetry ==
    /\ \A i \in CallIdx :
          trace[i].out = "quota" =>
            LET m == trace[i].model
                a == trace[i].attempt
            IN  /\ i + 1 <= Len(trace)
                /\ trace[i + 1] = SleepEvent(m, a, 2 + 2 * a)
                /\ \A j \in DOMAIN trace :
                      (trace[j].ev = "sleep" /\ trace[j].model = m
                          /\ trace[j].attempt < a) => trace[j].secs < trace[i + 1].secs
                /\ IF a + 1 < 3
                   THEN IF i + 2 <= Len(trace)
                        THEN /\ IsCall(i + 2)
                             /\ trace[i + 2].model = m
                             /\ trace[i + 2].attempt = a + 1
                        ELSE pc = "summarize" /\ mi = m /\ attempt = a + 1
                   ELSE IF i + 2 <= Len(trace)
                        THEN /\ IsCall(i + 2)
                             /\ trace[i + 2].model = m + 1
                             /\ trace[i + 2].attempt = 0
                        ELSE LeftModel(m)
    /\ \A m \in GEMINI_MODELS :
          (OutsOf(m) = {"quota"} /\ LeftModel(m)) =>
            /\ CallsTo(m) = 3
            /\ \A i \in DOMAIN trace, j \in DOMAIN trace :
                  (i < j /\ trace[i].model > m) => trace[j].model # m

C2_Witness ==
    /\ pc = "summarize"
    /\ mi = 3
    /\ OutsOf(1) = {"quota"}
    /\ OutsOf(2) = {"quota"}
    /\ CallsTo(3) = 2

\* C3: after a call to model m raised a backend error other than
\* quota-exhausted, nothing more happens for m (no call, no sleep); the next
\* event is the first call to model m+1, or, for the last model, the total
\* failure is reported to main.
C3_ApiErrorAbandons ==
    \A i \in CallIdx :
        trace[i].out = "api_error" =>
          LET m == trace[i].model
          IN  /\ \A j \in DOMAIN trace : j > i => trace[j].model # m
              /\ IF i < Len(trace)
                 THEN /\ m < NumModels
                      /\ trace[i + 1] \in {CallEvent(m + 1, 0, o) :
                              o \in {"text", "empty", "quota", "api_error", "other"}}
                 ELSE IF m < NumModels
                      THEN pc = "summarize" /\ mi = m + 1 /\ attempt = 0
                      ELSE /\ pc \in {"digest", "done"}
                           /\ logv[Len(logv)] = FallbackLine
                           /\ pc = "digest" => digest_text = NoDigest

C3_Witness ==
    /\ \E i \in CallIdx :
          /\ trace[i].out = "api_error"
          /\ trace[i].attempt = 1
          /\ i < Len(trace)
    /\ trace[Len(trace)] = CallEvent(NumModels, 0, "api_error")

\* C4 as stated: a response without text on attempt a < 2 of model m is followed
\* by attempt a+1 of the same model.
C4_EmptyResponseRetries ==
    \A i \in CallIdx :
        (trace[i].out = "empty" /\ trace[i].attempt + 1 < 3) =>
          IF i < Len(trace)
          THEN /\ IsCall(i + 1)
               /\ trace[i + 1].model = trace[i].model
               /\ trace[i + 1].attempt = trace[i].attempt + 1
          ELSE pc = "summarize" /\ mi = trace[i].model /\ attempt = trace[i].attempt + 1

\* ---- Properties: main --------------------------------------------------------
AllModelsOutOfQuota == \A m \in GEMINI_MODELS : OutsOf(m) = {"quota"} /\ CallsTo(m) = 3

\* C5: with the backend available and at least one article, once every model
\* has used up its 3 attempts on quota-exhausted errors, try_gemini_summarize
\* has raised, main goes on, and the run ends with exit code 0 having printed
\* the non-empty text format_headlines_only(items).
C5_QuotaEverywhereFallsBack ==
    (GEMINI_AVAILABLE /\ AllModelsOutOfQuota) =>
        /\ items # <<>>
        /\ pc \in {"digest", "done"}
        /\ logv[Len(logv)] = FallbackLine
        /\ pc = "digest" => digest_text = NoDigest
        /\ pc = "done" =>
              /\ exit_code = <<0>>
              /\ digest_text.text = format_headlines_only(items)
              /\ digest_text.text # <<>>
              /\ stdout = IF html
                          THEN [kind |-> "html", body |-> to_html(digest_text.text)]
                          ELSE [kind |-> "text", body |-> digest_text.text]

C5_Witness ==
    /\ pc = "done"
    /\ GEMINI_AVAILABLE
    /\ AllModelsOutOfQuota
    /\ stdout.kind = "html"
    /\ Len(items) = NumFeeds

\* C6: without GOOGLE_API_KEY, or when the SDK import or configure fails, a run
\* makes no backend call and no backoff sleep, and the digest it prints is
\* format_headlines_only(items).
C6_UnavailableShortCircuits ==
    (GOOGLE_API_KEY = <<>> \/ ~sdk_ok) =>
        /\ trace = <<>>
        /\ pc # "summarize"
        /\ (pc = "done" /\ items # <<>>) =>
              /\ digest_text.text = format_headlines_only(items)
              /\ stdout.kind \in {"text", "html"}
              /\ stdout.body \in {digest_text.text, to_html(digest_text.text)}

C6_Witness ==
    /\ GOOGLE_API_KEY # <<>>
    /\ ~sdk_ok
    /\ pc = "done"
    /\ items # <<>>
    /\ stdout.kind = "text"

\* C7 as stated: with the backend available the headlines-only digest is
\* printed only after every model was called and failed, and whenever
\* try_gemini_summarize returns, its text is non-empty and is what is printed.
C7_FallbackOnlyAfterAllModels ==
    /\ (GEMINI_AVAILABLE /\ pc = "done" /\ items # <<>>
            /\ digest_text.text = format_headlines_only(items)) =>
          \A m \in GEMINI_MODELS : CallsTo(m) >= 1 /\ "text" \notin OutsOf(m)
    /\ (Returned /\ pc = "digest") => digest_text.text # <<>>
    /\ (Returned /\ pc = "done") => IsStripOf(digest_text.text, text)

\* C10: each model is called at most 3 times, calls never go back to an earlier
\* model, there are at most 3 * 4 = 12 calls, the loop never blocks, and it is
\* left with returned text or with the total failure reported.
C10_BoundedCalls ==
    /\ \A m \in GEMINI_MODELS : CallsTo(m) <= 3
    /\ \A i \in CallIdx, j \in CallIdx : i < j => trace[i].model <= trace[j].model
    /\ \A i \in CallIdx : i < Len(trace) => trace[i].out # "text"
    /\ Cardinality(CallIdx) <= 12
    /\ pc = "summarize" =>
          /\ mi \in GEMINI_MODELS
          /\ attempt \in 0..2
          /\ ENABLED (CallReturnsText \/ CallReturnsEmpty \/ CallRaisesQuota
                         \/ CallRaisesApiError \/ CallRaisesOther)
    /\ LoopOver =>
          IF Returned
          THEN FallbackLine \notin {logv[i] : i \in DOMAIN logv}
          ELSE logv[Len(logv)] = FallbackLine

C10_Witness ==
    /\ pc = "done"
    /\ Cardinality(CallIdx) = 12
    /\ OutsOf(1) = {"quota"}
    /\ OutsOf(2) = {"quota", "empty"}
    /\ OutsOf(3) = {"quota", "api_error"}
    /\ OutsOf(4) = {"quota", "other"}

\* ---- Properties: fetch_articles -----------------------------------------------
\* Position of c[i] in the stable descending order of c.
Rank(c, i) ==
    1 + Cardinality({j \in DOMAIN c :
                        c[j].ts > c[i].ts \/ (c[j].ts = c[i].ts /\ j < i)})

Selected(c, r) ==
    /\ Len(r) <= 40
    /\ Len(r) = IF Len(c) < 40 THEN Len(c) ELSE 40
    /\ \A i \in 1..(Len(r) - 1) : r[i].ts >= r[i + 1].ts
    /\ \A i \in DOMAIN c : Rank(c, i) <= Len(r) => r[Rank(c, i)] = c[i]
    /\ c = <<>> => r = <<>>

\* C8: the list fetch_articles returns is sorted descending by timestamp, has at
\* most 40 elements, and is the first min(n, 40) elements of the stable
\* descending sort of the collected list; an empty list gives an empty list.
C8_SelectionSortedCapped ==
    [][(pc = "fetch" /\ pc' = "fetched") => Selected(all_items, items')]_vars

C8_Witness ==
    /\ pc = "fetched"
    /\ Len(all_items) > 40
    /\ Len(items) = 40
    /\ items[1].ts > items[40].ts
    /\ \E i \in 1..39 : items[i].ts = items[i + 1].ts /\ items[i] # items[i + 1]
    /\ all_items[41].ts = items[40].ts

Errored(url) == ErrorLine(url) \in {logv[i] : i \in DOMAIN logv}
From(url) == SelectSeq(all_items, LAMBDA it : it.source = url)
VisitedUrls == SelectSeq([i \in DOMAIN logv |-> logv[i].url],
                         LAMBDA u : u # 0)

\* C9: whichever sources raise, the loop visits every source in list order and
\* ends; a source that did not raise contributes its first min(n, 5) entries in
\* their order, and no source contributes more than 5 articles.
C9_PerSourceFailureAndCap ==
    pc = "fetch" =>
        /\ fi \in 1..(NumFeeds + 1)
        /\ ENABLED NextFetch
        /\ {VisitedUrls[i] : i \in DOMAIN VisitedUrls} = 1..(fi - 1)
        /\ \A i \in 1..(Len(VisitedUrls) - 1) : VisitedUrls[i] <= VisitedUrls[i + 1]
        /\ \A i \in 1..(Len(all_items) - 1) :
              all_items[i].source <= all_items[i + 1].source
        /\ \A url \in RSS_FEEDS :
              /\ Len(From(url)) <= 5
              /\ url >= fi => From(url) = <<>>
              /\ (url < fi /\ ~Errored(url)) =>
                    LET e == feeds[url].entries
                        n == IF Len(e) < 5 THEN Len(e) ELSE 5
                    IN  From(url) = [j \in 1..n |-> Article(e[j], url)]

C9_Witness ==
    /\ pc = "fetch"
    /\ fi = NumFeeds + 1
    /\ Errored(1)
    /\ Len(From(1)) = 2
    /\ ~Errored(2)
    /\ Len(feeds[2].entries) > 5
    /\ Len(From(2)) = 5

=============================================================================
